---- MODULE Spec2Model ----
(***************************************************************************)
(* Room registry and relay of src/app.py (Flask-SocketIO, threading mode). *)
(*                                                                         *)
(* Every Socket.IO event is served by its own handler thread; the handlers *)
(* share the module-level dict active_rooms without a lock, so a handler   *)
(* is modelled as a sequence of steps, one per access to shared state, and *)
(* the steps of different handlers interleave.  A program counter "Lnn"    *)
(* names the source line the thread executes next.                         *)
(***************************************************************************)
EXTENDS Naturals, Sequences, FiniteSets, TLC

\* ---------------------------------------------------------------- bounds
NumConns == 2      \* connections (transport session ids) 1..NumConns
MaxEvents == 3     \* inbound events (handler invocations) per behaviour
MaxOverlap == 1    \* events dispatched while another handler is still running

Conns == 1..NumConns
\* handler threads: one more than the handlers that may overlap another
Threads == 1..(MaxOverlap + 1)

\* ---------------------------------------------------------------- values
NONE == "<None>"                 \* Python None: dict.get() of an absent key
RoomCodes == {"A", "A_recv"}     \* the non-empty room codes clients send
\* the <<code, type>> payloads of join_room events: every role in room "A",
\* both roles in room "A_recv", a type that is no role, and a missing (NONE)
\* or empty code or type
JoinInputs ==
    {<<"A", "sender">>, <<"A", "receiver">>, <<"A", "viewer">>,
     <<"A_recv", "sender">>, <<"A_recv", "receiver">>,
     <<NONE, "sender">>, <<"", "receiver">>, <<"A", NONE>>, <<"A", "">>}
\* the <<code, text>> payloads of send_text events
TextInputs ==
    {<<"A", "hi">>, <<NONE, "hi">>, <<"", "hi">>, <<"A", NONE>>, <<"A", "">>}
\* the <<code, control>> payloads of send_live_control events
ControlInputs ==
    {<<"A", "start">>, <<NONE, "start">>, <<"", "start">>, <<"A", NONE>>,
     <<"A", "">>}

\* Python truthiness of a value read with data.get(...)
Truthy(v) == v # NONE /\ v # ""

\* f"{room_code}_recv"
RecvGroup(room_code) == room_code \o "_recv"
GroupNames == RoomCodes \cup {RecvGroup(c) : c \in RoomCodes}

\* the payload dict of an inbound event; an absent key reads as NONE
Data(code, type, text, control) ==
    [code |-> code, type |-> type, text |-> text, control |-> control]
NoData == Data(NONE, NONE, NONE, NONE)

\* ---------------------------------------------------------- Python lists
Contains(s, x) == \E i \in 1..Len(s) : s[i] = x
Elems(s) == {s[i] : i \in 1..Len(s)}
Count(s, x) == Cardinality({i \in 1..Len(s) : s[i] = x})
\* list.remove(x): drops the first occurrence
RemoveFirst(s, x) ==
    LET i == CHOOSE k \in 1..Len(s) : s[k] = x /\ \A j \in 1..(k - 1) : s[j] # x
    IN  SubSeq(s, 1, i - 1) \o SubSeq(s, i + 1, Len(s))

\* ---------------------------------------------------------- Python dicts
\* a dict is the sequence of its <<key, value>> items in insertion order
DictHas(d, k) == \E i \in 1..Len(d) : d[i][1] = k
DictGet(d, k) == d[CHOOSE i \in 1..Len(d) : d[i][1] = k][2]
DictSet(d, k, v) ==
    IF DictHas(d, k)
    THEN [i \in 1..Len(d) |-> IF d[i][1] = k THEN <<k, v>> ELSE d[i]]
    ELSE Append(d, <<k, v>>)
DictDel(d, k) == SelectSeq(d, LAMBDA item : item[1] # k)
DictKeys(d) == [i \in 1..Len(d) |-> d[i][1]]

\* ------------------------------------------------------------ room objects
\* active_rooms maps a code to a reference to a room dict; handlers keep
\* references in their local `room`, also after the entry was deleted or
\* replaced, so room dicts live in a heap and are told apart by reference.
NoRef == 0
Refs == 1..(Cardinality(RoomCodes) + MaxOverlap + 1)
EmptyRoom == [senders |-> <<>>, receivers |-> <<>>]

VARIABLES
    status,        \* per connection: "fresh" (id not in use), "connected"
                   \* (no event sent yet), "talking", "closed" (disconnected)
    active_rooms,  \* the registry dict: code -> reference of its room dict
    heap,          \* reference -> room dict {'senders': [...], 'receivers': [...]}
    groups,        \* transport: group name -> subscribed connections
    pc,            \* per thread: "idle", "Lnn", "done" or "failed"
    frame,         \* per thread: the running handler's request and locals
    emitted,       \* per thread: the events its handler emitted; kept after
                   \* the handler ends until the next inbound event
    hist,          \* per thread: history of the invocation (not program state)
    sjoined,       \* history: code -> connections whose join as sender
                   \* completed since the last disconnect began
    events,        \* number of inbound events so far
    overlaps       \* number of them dispatched while a handler was running

vars == <<status, active_rooms, heap, groups, pc, frame, emitted, hist,
          sjoined, events, overlaps>>

IdleFrame ==
    [handler |-> "none", sid |-> 0, data |-> NoData,
     keys |-> <<>>, room |-> NoRef,
     was_sender |-> FALSE, was_receiver |-> FALSE,
     has_sender |-> FALSE, has_receiver |-> FALSE]

NoRoom0 == [exists |-> FALSE, senders |-> {}, receivers |-> {}]
IdleHist ==
    [room0 |-> NoRoom0,       \* the addressed room when the handler began
     sender_of0 |-> {},       \* disconnect: codes whose senders held sid at start
     member_of0 |-> {},       \* disconnect: codes whose room held sid at start
     peers |-> {},            \* handlers that ran while this one ran
     prior_senders |-> {},    \* join: others that joined the room as sender before
     overlapped |-> {}]       \* threads whose handler ran while this one ran

Running(t) == pc[t] \notin {"idle", "done", "failed"}
Quiescent == \A t \in Threads : ~Running(t)

\* the room currently registered under a code, as sets of members
RoomOf(code) ==
    IF DictHas(active_rooms, code)
    THEN LET r == heap[DictGet(active_rooms, code)]
         IN  [exists |-> TRUE, senders |-> Elems(r.senders),
              receivers |-> Elems(r.receivers)]
    ELSE NoRoom0

\* the registry by value: code -> room dict, for the codes that are keys
Registry ==
    [c \in {k \in RoomCodes : DictHas(active_rooms, k)} |->
        heap[DictGet(active_rooms, c)]]

\* reference counting: a room dict nobody refers to is freed
Live(ar, fr) == {ar[i][2] : i \in 1..Len(ar)} \cup {fr[t].room : t \in Threads}
Collect(hp, ar, fr) ==
    [r \in Refs |-> IF r \in Live(ar, fr) THEN hp[r] ELSE EmptyRoom]
NewRef(ar, fr) == CHOOSE r \in Refs : r \notin Live(ar, fr)
                    /\ \A q \in Refs : q < r => q \in Live(ar, fr)

Init ==
    /\ status = [c \in Conns |-> "fresh"]
    /\ active_rooms = <<>>
    /\ heap = [r \in Refs |-> EmptyRoom]
    /\ groups = [g \in GroupNames |-> {}]
    /\ pc = [t \in Threads |-> "idle"]
    /\ frame = [t \in Threads |-> IdleFrame]
    /\ emitted = [t \in Threads |-> <<>>]
    /\ hist = [t \in Threads |-> IdleHist]
    /\ sjoined = [c \in RoomCodes |-> {}]
    /\ events = 0
    /\ overlaps = 0

\* ------------------------------------------------------------- transport
\* a connection receives what is sent to it only while it is open
IsOpen(c) == status[c] \in {"connected", "talking"}
Delivered(cs) == {c \in cs : IsOpen(c)}

\* emit(event, payload) inside a handler: to the requesting connection
Reply(sid, event, payload) ==
    [event |-> event, payload |-> payload, to_sid |-> sid, to_group |-> NONE,
     rcpts |-> Delivered({sid}), room_now |-> NoRoom0]

\* emit(event, payload, to=group, skip_sid=skip): to the group's subscribers;
\* room_now records the room registered under `code` when the event is sent
Broadcast(group, skip, event, payload, code) ==
    [event |-> event, payload |-> payload, to_sid |-> 0, to_group |-> group,
     rcpts |-> Delivered(groups[group] \ {skip}), room_now |-> RoomOf(code)]

\* flask_socketio.join_room(group) for the requesting connection
Subscribe(g, sid, group) == [g EXCEPT ![group] = @ \cup {sid}]
\* the transport drops a disconnected connection from every group
LeaveAll(g, sid) == [n \in GroupNames |-> g[n] \ {sid}]

\* ------------------------------------------------------- handler plumbing
Goto(t, label) == pc' = [pc EXCEPT ![t] = label]
\* return (or an uncaught exception, label "failed"): the locals are dropped.
\* An exception in the disconnect handler also skips the transport's cleanup
\* that follows the handler (handle_disconnect_Lend).
Return(t, label) ==
    /\ pc' = [pc EXCEPT ![t] = label]
    /\ frame' = [frame EXCEPT ![t] =
            [IdleFrame EXCEPT !.handler = frame[t].handler,
                              !.sid = frame[t].sid, !.data = frame[t].data]]
Raise(t) == Return(t, "failed")

DisconnectRunning ==
    \E u \in Threads : Running(u) /\ frame[u].handler = "disconnect"

\* history kept when a handler invocation begins on thread t; what the
\* handlers that ended before have left is dropped
Begin(t, h) ==
    hist' = [u \in Threads |->
        IF u = t
        THEN [h EXCEPT !.overlapped = {v \in Threads \ {t} : Running(v)},
                       !.peers = {frame[v].handler :
                                      v \in {w \in Threads \ {t} : Running(w)}}]
        ELSE IF Running(u)
        THEN [hist[u] EXCEPT !.overlapped = @ \cup {t},
                             !.peers = @ \cup {frame'[t].handler},
                             !.prior_senders =
                                 IF frame'[t].handler = "disconnect" THEN {} ELSE @]
        ELSE IdleHist]

\* an inbound event of connection c is dispatched to the first free thread t
Dispatch(t, c, handler, data, label) ==
    /\ ~Running(t)
    /\ \A u \in Threads : u < t => Running(u)
    /\ IsOpen(c)
    /\ status' = [status EXCEPT ![c] =
            IF handler = "disconnect" THEN "closed" ELSE "talking"]
    /\ events < MaxEvents
    /\ events' = events + 1
    /\ overlaps' = overlaps + (IF \E u \in Threads : Running(u) THEN 1 ELSE 0)
    /\ overlaps' <= MaxOverlap
    /\ pc' = [u \in Threads |->
            IF u = t THEN label ELSE IF Running(u) THEN pc[u] ELSE "idle"]
    /\ frame' = [u \in Threads |->
            IF u = t
            THEN [IdleFrame EXCEPT !.handler = handler, !.sid = c, !.data = data]
            ELSE IF Running(u) THEN frame[u] ELSE IdleFrame]
    /\ emitted' = [u \in Threads |-> IF u # t /\ Running(u) THEN emitted[u] ELSE <<>>]

\* ---------------------------------------------------------------- connect
\* Session ids are opaque and a connection that has sent nothing is in no
\* room and no group, so the ids are numbered in the order in which the
\* connections send their first event: a new connection takes the next id
\* once the earlier ones have sent something.
handle_connect(c) ==
    /\ status[c] = "fresh"
    /\ \A b \in Conns : b < c => status[b] \in {"talking", "closed"}
    /\ status' = [status EXCEPT ![c] = "connected"]
    /\ UNCHANGED <<active_rooms, heap, groups, pc, frame, emitted, hist,
                   sjoined, events, overlaps>>

\* ---------------------------------------------------------------- on_join
recv_join_room(t, c, code, type) ==
    /\ Dispatch(t, c, "join_room", Data(code, type, NONE, NONE), "L79")
    /\ Begin(t, [IdleHist EXCEPT
            !.room0 = IF code \in RoomCodes THEN RoomOf(code) ELSE NoRoom0,
            !.prior_senders =
                IF code \in RoomCodes THEN sjoined[code] \ {c} ELSE {}])
    /\ UNCHANGED <<active_rooms, heap, groups, sjoined>>

\* on_join_L79 with the check of device_type forgotten: if not room_code:
on_join_L79_TypeUnchecked(t) ==
    /\ pc[t] = "L79"
    /\ IF ~Truthy(frame[t].data.code)
       THEN /\ emitted' = [emitted EXCEPT ![t] = Append(@,
                   Reply(frame[t].sid, "error",
                         [message |-> "Invalid room code or device type"]))]
            /\ Return(t, "done")
       ELSE /\ Goto(t, "L84")
            /\ UNCHANGED <<frame, emitted>>
    /\ UNCHANGED <<status, active_rooms, heap, groups, hist, sjoined, events,
                   overlaps>>

\* if not room_code or not device_type: emit('error', ...); return
on_join_L79(t) ==
    /\ pc[t] = "L79"
    /\ IF ~Truthy(frame[t].data.code) \/ ~Truthy(frame[t].data.type)
       THEN /\ emitted' = [emitted EXCEPT ![t] = Append(@,
                   Reply(frame[t].sid, "error",
                         [message |-> "Invalid room code or device type"]))]
            /\ Return(t, "done")
       ELSE /\ Goto(t, "L84")
            /\ UNCHANGED <<frame, emitted>>
    /\ UNCHANGED <<status, active_rooms, heap, groups, hist, sjoined, events, overlaps>>

\* if room_code not in active_rooms:
on_join_L84(t) ==
    /\ pc[t] = "L84"
    /\ Goto(t, IF DictHas(active_rooms, frame[t].data.code) THEN "L87" ELSE "L85")
    /\ UNCHANGED <<status, active_rooms, heap, groups, frame, emitted, hist,
                   sjoined, events, overlaps>>

\* active_rooms[room_code] = {'senders': [], 'receivers': []}
on_join_L85(t) ==
    /\ pc[t] = "L85"
    /\ active_rooms' = DictSet(active_rooms, frame[t].data.code,
                               NewRef(active_rooms, frame))
    /\ heap' = Collect([heap EXCEPT ![NewRef(active_rooms, frame)] = EmptyRoom],
                       active_rooms', frame)
    /\ Goto(t, "L87")
    /\ UNCHANGED <<status, groups, frame, emitted, hist, sjoined, events, overlaps>>

\* room = active_rooms[room_code]; then the branch on device_type
on_join_L87(t) ==
    /\ pc[t] = "L87"
    /\ IF DictHas(active_rooms, frame[t].data.code)
       THEN /\ frame' = [frame EXCEPT ![t].room =
                            DictGet(active_rooms, frame[t].data.code)]
            /\ Goto(t, CASE frame[t].data.type = "sender" -> "L91"
                         [] frame[t].data.type = "receiver" -> "L96"
                         [] OTHER -> "L103")
       ELSE Raise(t)     \* KeyError
    /\ heap' = Collect(heap, active_rooms, frame')
    /\ UNCHANGED <<status, active_rooms, groups, emitted, hist, sjoined, events, overlaps>>

\* if sid not in room['senders']:
on_join_L91(t) ==
    /\ pc[t] = "L91"
    /\ Goto(t, IF Contains(heap[frame[t].room].senders, frame[t].sid)
               THEN "L93" ELSE "L92")
    /\ UNCHANGED <<status, active_rooms, heap, groups, frame, emitted, hist,
                   sjoined, events, overlaps>>

\* room['senders'].append(sid)
on_join_L92(t) ==
    /\ pc[t] = "L92"
    /\ heap' = [heap EXCEPT ![frame[t].room].senders = Append(@, frame[t].sid)]
    /\ Goto(t, "L93")
    /\ UNCHANGED <<status, active_rooms, groups, frame, emitted, hist,
                   sjoined, events, overlaps>>

\* join_room(room_code)
on_join_L93(t) ==
    /\ pc[t] = "L93"
    /\ groups' = Subscribe(groups, frame[t].sid, frame[t].data.code)
    /\ Goto(t, "L103")
    /\ UNCHANGED <<status, active_rooms, heap, frame, emitted, hist,
                   sjoined, events, overlaps>>

\* if sid not in room['receivers']:
on_join_L96(t) ==
    /\ pc[t] = "L96"
    /\ Goto(t, IF Contains(heap[frame[t].room].receivers, frame[t].sid)
               THEN "L98" ELSE "L97")
    /\ UNCHANGED <<status, active_rooms, heap, groups, frame, emitted, hist,
                   sjoined, events, overlaps>>

\* room['receivers'].append(sid)
on_join_L97(t) ==
    /\ pc[t] = "L97"
    /\ heap' = [heap EXCEPT ![frame[t].room].receivers = Append(@, frame[t].sid)]
    /\ Goto(t, "L98")
    /\ UNCHANGED <<status, active_rooms, groups, frame, emitted, hist,
                   sjoined, events, overlaps>>

\* join_room(room_code)
on_join_L98(t) ==
    /\ pc[t] = "L98"
    /\ groups' = Subscribe(groups, frame[t].sid, frame[t].data.code)
    /\ Goto(t, "L99")
    /\ UNCHANGED <<status, active_rooms, heap, frame, emitted, hist,
                   sjoined, events, overlaps>>

\* join_room(f"{room_code}_recv")
on_join_L99(t) ==
    /\ pc[t] = "L99"
    /\ groups' = Subscribe(groups, frame[t].sid, RecvGroup(frame[t].data.code))
    /\ Goto(t, "L103")
    /\ UNCHANGED <<status, active_rooms, heap, frame, emitted, hist,
                   sjoined, events, overlaps>>

\* has_sender = len(room['senders']) > 0
on_join_L103(t) ==
    /\ pc[t] = "L103"
    /\ frame' = [frame EXCEPT ![t].has_sender =
                    Len(heap[frame[t].room].senders) > 0]
    /\ Goto(t, "L104")
    /\ UNCHANGED <<status, active_rooms, heap, groups, emitted, hist,
                   sjoined, events, overlaps>>

\* has_receiver = len(room['receivers']) > 0
on_join_L104(t) ==
    /\ pc[t] = "L104"
    /\ frame' = [frame EXCEPT ![t].has_receiver =
                    Len(heap[frame[t].room].receivers) > 0]
    /\ Goto(t, "L108")
    /\ UNCHANGED <<status, active_rooms, heap, groups, emitted, hist,
                   sjoined, events, overlaps>>

\* the join of a sender that returned while its connection was open and no
\* disconnect was running
JoinReturned(t) ==
    sjoined' = IF /\ frame[t].data.type = "sender"
                  /\ IsOpen(frame[t].sid) /\ ~DisconnectRunning
               THEN [sjoined EXCEPT ![frame[t].data.code] = @ \cup {frame[t].sid}]
               ELSE sjoined

\* room_active = has_sender and has_receiver; emit('room_joined', {...})
on_join_L108(t) ==
    /\ pc[t] = "L108"
    /\ emitted' = [emitted EXCEPT ![t] = Append(@,
            Reply(frame[t].sid, "room_joined",
                  [message |-> frame[t].data.type \o " joined",
                   type |-> frame[t].data.type,
                   room_active |-> frame[t].has_sender /\ frame[t].has_receiver,
                   has_sender |-> frame[t].has_sender,
                   has_receiver |-> frame[t].has_receiver]))]
    /\ IF frame[t].has_sender /\ frame[t].has_receiver
       THEN /\ Goto(t, "L118")
            /\ UNCHANGED <<frame, heap, sjoined>>
       ELSE /\ Return(t, "done")
            /\ heap' = Collect(heap, active_rooms, frame')
            /\ JoinReturned(t)
    /\ UNCHANGED <<status, active_rooms, groups, hist, events, overlaps>>

\* emit('room_status', {'status': 'active', ...}, to=room_code, skip_sid=sid)
on_join_L118(t) ==
    /\ pc[t] = "L118"
    /\ emitted' = [emitted EXCEPT ![t] = Append(@,
            Broadcast(frame[t].data.code, frame[t].sid, "room_status",
                      [status |-> "active",
                       message |-> "Both sender and receiver connected"],
                      frame[t].data.code))]
    /\ Return(t, "done")
    /\ heap' = Collect(heap, active_rooms, frame')
    /\ JoinReturned(t)
    /\ UNCHANGED <<status, active_rooms, groups, hist, events, overlaps>>

on_join(t) ==
    \/ on_join_L79(t) \/ on_join_L84(t) \/ on_join_L85(t) \/ on_join_L87(t)
    \/ on_join_L91(t) \/ on_join_L92(t) \/ on_join_L93(t)
    \/ on_join_L96(t) \/ on_join_L97(t) \/ on_join_L98(t) \/ on_join_L99(t)
    \/ on_join_L103(t) \/ on_join_L104(t) \/ on_join_L108(t) \/ on_join_L118(t)

\* ------------------------------------------------------- handle_disconnect
\* the transport has closed connection c and runs the disconnect handler
recv_disconnect(t, c) ==
    /\ Dispatch(t, c, "disconnect", NoData, "L50")
    /\ Begin(t, [IdleHist EXCEPT
            !.sender_of0 = {code \in RoomCodes : c \in RoomOf(code).senders},
            !.member_of0 = {code \in RoomCodes :
                c \in RoomOf(code).senders \cup RoomOf(code).receivers}])
    /\ sjoined' = [code \in RoomCodes |-> {}]
    /\ UNCHANGED <<active_rooms, heap, groups>>

\* the loop moves on to the next snapshot key, or ends
NextRoom(t) ==
    /\ frame' = [frame EXCEPT ![t].keys = Tail(@), ![t].room = NoRef,
                              ![t].was_sender = FALSE, ![t].was_receiver = FALSE]
    /\ Goto(t, IF Len(frame[t].keys) > 1 THEN "L51" ELSE "Lend")

\* for room_code in list(active_rooms.keys()):
handle_disconnect_L50(t) ==
    /\ pc[t] = "L50"
    /\ frame' = [frame EXCEPT ![t].keys = DictKeys(active_rooms)]
    /\ Goto(t, IF Len(active_rooms) > 0 THEN "L51" ELSE "Lend")
    /\ UNCHANGED <<status, active_rooms, heap, groups, emitted, hist,
                   sjoined, events, overlaps>>

\* room = active_rooms[room_code]
handle_disconnect_L51(t) ==
    /\ pc[t] = "L51"
    /\ IF DictHas(active_rooms, Head(frame[t].keys))
       THEN /\ frame' = [frame EXCEPT ![t].room =
                            DictGet(active_rooms, Head(frame[t].keys))]
            /\ Goto(t, "L52")
       ELSE Raise(t)     \* KeyError
    /\ heap' = Collect(heap, active_rooms, frame')
    /\ UNCHANGED <<status, active_rooms, groups, emitted, hist,
                   sjoined, events, overlaps>>

\* was_sender = sid in room.get('senders', [])
handle_disconnect_L52(t) ==
    /\ pc[t] = "L52"
    /\ frame' = [frame EXCEPT ![t].was_sender =
                    Contains(heap[frame[t].room].senders, frame[t].sid)]
    /\ Goto(t, "L53")
    /\ UNCHANGED <<status, active_rooms, heap, groups, emitted, hist,
                   sjoined, events, overlaps>>

\* was_receiver = sid in room.get('receivers', []); if was_sender:
handle_disconnect_L53(t) ==
    /\ pc[t] = "L53"
    /\ frame' = [frame EXCEPT ![t].was_receiver =
                    Contains(heap[frame[t].room].receivers, frame[t].sid)]
    /\ Goto(t, IF frame[t].was_sender THEN "L56"
               ELSE IF frame'[t].was_receiver THEN "L65" ELSE "L68")
    /\ UNCHANGED <<status, active_rooms, heap, groups, emitted, hist,
                   sjoined, events, overlaps>>

\* room['senders'].remove(sid)
handle_disconnect_L56(t) ==
    /\ pc[t] = "L56"
    /\ IF Contains(heap[frame[t].room].senders, frame[t].sid)
       THEN /\ heap' = [heap EXCEPT ![frame[t].room].senders =
                                        RemoveFirst(@, frame[t].sid)]
            /\ Goto(t, "L58")
            /\ UNCHANGED frame
       ELSE /\ Raise(t)     \* ValueError
            /\ heap' = Collect(heap, active_rooms, frame')
    /\ UNCHANGED <<status, active_rooms, groups, emitted, hist,
                   sjoined, events, overlaps>>

\* if room.get('receivers'):
handle_disconnect_L58(t) ==
    /\ pc[t] = "L58"
    /\ Goto(t, IF Len(heap[frame[t].room].receivers) > 0 THEN "L59"
               ELSE IF frame[t].was_receiver THEN "L65" ELSE "L68")
    /\ UNCHANGED <<status, active_rooms, heap, groups, frame, emitted, hist,
                   sjoined, events, overlaps>>

\* socketio.emit('room_status', {'status': 'sender_left', ...},
\*               to=f"{room_code}_recv")
handle_disconnect_L59(t) ==
    /\ pc[t] = "L59"
    /\ emitted' = [emitted EXCEPT ![t] = Append(@,
            Broadcast(RecvGroup(Head(frame[t].keys)), 0, "room_status",
                      [status |-> "sender_left",
                       message |-> "Sender has left the room"],
                      Head(frame[t].keys)))]
    /\ Goto(t, IF frame[t].was_receiver THEN "L65" ELSE "L68")
    /\ UNCHANGED <<status, active_rooms, heap, groups, frame, hist,
                   sjoined, events, overlaps>>

\* if was_receiver: room['receivers'].remove(sid)
handle_disconnect_L65(t) ==
    /\ pc[t] = "L65"
    /\ IF Contains(heap[frame[t].room].receivers, frame[t].sid)
       THEN /\ heap' = [heap EXCEPT ![frame[t].room].receivers =
                                        RemoveFirst(@, frame[t].sid)]
            /\ Goto(t, "L68")
            /\ UNCHANGED frame
       ELSE /\ Raise(t)     \* ValueError
            /\ heap' = Collect(heap, active_rooms, frame')
    /\ UNCHANGED <<status, active_rooms, groups, emitted, hist,
                   sjoined, events, overlaps>>

\* if not room['senders'] and not room['receivers']:  -- the first operand
handle_disconnect_L68(t) ==
    /\ pc[t] = "L68"
    /\ IF Len(heap[frame[t].room].senders) = 0
       THEN Goto(t, "L68b") /\ UNCHANGED frame
       ELSE NextRoom(t)
    /\ heap' = Collect(heap, active_rooms, frame')
    /\ UNCHANGED <<status, active_rooms, groups, emitted, hist,
                   sjoined, events, overlaps>>

\* if not room['senders'] and not room['receivers']:  -- the second operand
handle_disconnect_L68b(t) ==
    /\ pc[t] = "L68b"
    /\ IF Len(heap[frame[t].room].receivers) = 0
       THEN Goto(t, "L69") /\ UNCHANGED frame
       ELSE NextRoom(t)
    /\ heap' = Collect(heap, active_rooms, frame')
    /\ UNCHANGED <<status, active_rooms, groups, emitted, hist,
                   sjoined, events, overlaps>>

\* del active_rooms[room_code]
handle_disconnect_L69(t) ==
    /\ pc[t] = "L69"
    /\ IF DictHas(active_rooms, Head(frame[t].keys))
       THEN /\ active_rooms' = DictDel(active_rooms, Head(frame[t].keys))
            /\ NextRoom(t)
       ELSE /\ Raise(t)     \* KeyError
            /\ UNCHANGED active_rooms
    /\ heap' = Collect(heap, active_rooms', frame')
    /\ UNCHANGED <<status, groups, emitted, hist, sjoined, events, overlaps>>

\* the handler has returned: the transport takes sid out of every group
handle_disconnect_Lend(t) ==
    /\ pc[t] = "Lend"
    /\ groups' = LeaveAll(groups, frame[t].sid)
    /\ Return(t, "done")
    /\ UNCHANGED <<status, active_rooms, heap, emitted, hist,
                   sjoined, events, overlaps>>

handle_disconnect(t) ==
    \/ handle_disconnect_L50(t) \/ handle_disconnect_L51(t)
    \/ handle_disconnect_L52(t) \/ handle_disconnect_L53(t)
    \/ handle_disconnect_L56(t) \/ handle_disconnect_L58(t)
    \/ handle_disconnect_L59(t) \/ handle_disconnect_L65(t)
    \/ handle_disconnect_L68(t) \/ handle_disconnect_L68b(t)
    \/ handle_disconnect_L69(t) \/ handle_disconnect_Lend(t)

\* ------------------------------------------------------------ handle_text
recv_send_text(t, c, code, text) ==
    /\ Dispatch(t, c, "send_text", Data(code, NONE, text, NONE), "L129")
    /\ Begin(t, [IdleHist EXCEPT
            !.room0 = IF code \in RoomCodes THEN RoomOf(code) ELSE NoRoom0])
    /\ UNCHANGED <<active_rooms, heap, groups, sjoined>>

\* handle_text_L129 answering an unusable payload the way line 143 does:
\* if not room_code or not text: emit('error', ...); return
handle_text_L129_ErrorReply(t) ==
    /\ pc[t] = "L129"
    /\ IF Truthy(frame[t].data.code) /\ Truthy(frame[t].data.text)
       THEN Goto(t, "L131") /\ UNCHANGED <<frame, emitted>>
       ELSE /\ emitted' = [emitted EXCEPT ![t] = Append(@,
                   Reply(frame[t].sid, "error",
                         [message |-> "Invalid text payload"]))]
            /\ Return(t, "done")
    /\ UNCHANGED <<status, active_rooms, heap, groups, hist,
                   sjoined, events, overlaps>>

\* text = data.get('text', ''); if room_code and text:
handle_text_L129(t) ==
    /\ pc[t] = "L129"
    /\ IF Truthy(frame[t].data.code) /\ Truthy(frame[t].data.text)
       THEN Goto(t, "L131") /\ UNCHANGED frame
       ELSE Return(t, "done")
    /\ UNCHANGED <<status, active_rooms, heap, groups, emitted, hist,
                   sjoined, events, overlaps>>

\* handle_text_L131 registering the room it does not find:
\* active_rooms.setdefault(room_code, {'senders': [], 'receivers': []})
handle_text_L131_SetDefault(t) ==
    /\ pc[t] = "L131"
    /\ IF DictHas(active_rooms, frame[t].data.code)
       THEN /\ Goto(t, "L131b")
            /\ UNCHANGED <<active_rooms, heap>>
       ELSE /\ active_rooms' = DictSet(active_rooms, frame[t].data.code,
                                       NewRef(active_rooms, frame))
            /\ heap' = Collect([heap EXCEPT
                              ![NewRef(active_rooms, frame)] = EmptyRoom],
                              active_rooms', frame)
            /\ Goto(t, "L135")
    /\ UNCHANGED <<status, groups, frame, emitted, hist,
                   sjoined, events, overlaps>>

\* if room_code in active_rooms and ...  -- the first operand
handle_text_L131(t) ==
    /\ pc[t] = "L131"
    /\ Goto(t, IF DictHas(active_rooms, frame[t].data.code)
               THEN "L131b" ELSE "L135")
    /\ UNCHANGED <<status, active_rooms, heap, groups, frame, emitted, hist,
                   sjoined, events, overlaps>>

\* ... and active_rooms[room_code]['receivers']:  -- the second operand
handle_text_L131b(t) ==
    /\ pc[t] = "L131b"
    /\ IF DictHas(active_rooms, frame[t].data.code)
       THEN /\ Goto(t, IF Len(heap[DictGet(active_rooms,
                                  frame[t].data.code)].receivers) > 0
                       THEN "L133" ELSE "L135")
            /\ UNCHANGED frame
       ELSE Raise(t)     \* KeyError
    /\ UNCHANGED <<status, active_rooms, heap, groups, emitted, hist,
                   sjoined, events, overlaps>>

\* handle_text_L133 addressing the room group instead of the receiver
\* group: emit('receive_text', data, to=room_code)
handle_text_L133_ToRoom(t) ==
    /\ pc[t] = "L133"
    /\ emitted' = [emitted EXCEPT ![t] = Append(@,
            Broadcast(frame[t].data.code, 0, "receive_text",
                      frame[t].data, frame[t].data.code))]
    /\ Return(t, "done")
    /\ UNCHANGED <<status, active_rooms, heap, groups, hist,
                   sjoined, events, overlaps>>

\* emit('receive_text', data, to=f"{room_code}_recv")
handle_text_L133(t) ==
    /\ pc[t] = "L133"
    /\ emitted' = [emitted EXCEPT ![t] = Append(@,
            Broadcast(RecvGroup(frame[t].data.code), 0, "receive_text",
                      frame[t].data, frame[t].data.code))]
    /\ Return(t, "done")
    /\ UNCHANGED <<status, active_rooms, heap, groups, hist,
                   sjoined, events, overlaps>>

\* emit('error', {'message': 'No receivers in room'})
handle_text_L135(t) ==
    /\ pc[t] = "L135"
    /\ emitted' = [emitted EXCEPT ![t] = Append(@,
            Reply(frame[t].sid, "error", [message |-> "No receivers in room"]))]
    /\ Return(t, "done")
    /\ UNCHANGED <<status, active_rooms, heap, groups, hist,
                   sjoined, events, overlaps>>

handle_text(t) ==
    \/ handle_text_L129(t) \/ handle_text_L131(t) \/ handle_text_L131b(t)
    \/ handle_text_L133(t) \/ handle_text_L135(t)

\* ---------------------------------------------------- handle_live_control
recv_send_live_control(t, c, code, control) ==
    /\ Dispatch(t, c, "send_live_control", Data(code, NONE, NONE, control), "L143")
    /\ Begin(t, [IdleHist EXCEPT
            !.room0 = IF code \in RoomCodes THEN RoomOf(code) ELSE NoRoom0])
    /\ UNCHANGED <<active_rooms, heap, groups, sjoined>>

\* if not room_code or not control: emit('error', ...); return
handle_live_control_L143(t) ==
    /\ pc[t] = "L143"
    /\ IF ~Truthy(frame[t].data.code) \/ ~Truthy(frame[t].data.control)
       THEN /\ emitted' = [emitted EXCEPT ![t] = Append(@,
                   Reply(frame[t].sid, "error",
                         [message |-> "Invalid live control payload"]))]
            /\ Return(t, "done")
       ELSE /\ Goto(t, "L147")
            /\ UNCHANGED <<frame, emitted>>
    /\ UNCHANGED <<status, active_rooms, heap, groups, hist,
                   sjoined, events, overlaps>>

\* if room_code in active_rooms and ...  -- the first operand
handle_live_control_L147(t) ==
    /\ pc[t] = "L147"
    /\ Goto(t, IF DictHas(active_rooms, frame[t].data.code)
               THEN "L147b" ELSE "L151")
    /\ UNCHANGED <<status, active_rooms, heap, groups, frame, emitted, hist,
                   sjoined, events, overlaps>>

\* ... and active_rooms[room_code]['receivers']:  -- the second operand
handle_live_control_L147b(t) ==
    /\ pc[t] = "L147b"
    /\ IF DictHas(active_rooms, frame[t].data.code)
       THEN /\ Goto(t, IF Len(heap[DictGet(active_rooms,
                                  frame[t].data.code)].receivers) > 0
                       THEN "L149" ELSE "L151")
            /\ UNCHANGED frame
       ELSE Raise(t)     \* KeyError
    /\ UNCHANGED <<status, active_rooms, heap, groups, emitted, hist,
                   sjoined, events, overlaps>>

\* emit('receive_live_control', data, to=f"{room_code}_recv")
handle_live_control_L149(t) ==
    /\ pc[t] = "L149"
    /\ emitted' = [emitted EXCEPT ![t] = Append(@,
            Broadcast(RecvGroup(frame[t].data.code), 0, "receive_live_control",
                      frame[t].data, frame[t].data.code))]
    /\ Return(t, "done")
    /\ UNCHANGED <<status, active_rooms, heap, groups, hist,
                   sjoined, events, overlaps>>

\* emit('error', {'message': 'No receivers in room'})
handle_live_control_L151(t) ==
    /\ pc[t] = "L151"
    /\ emitted' = [emitted EXCEPT ![t] = Append(@,
            Reply(frame[t].sid, "error", [message |-> "No receivers in room"]))]
    /\ Return(t, "done")
    /\ UNCHANGED <<status, active_rooms, heap, groups, hist,
                   sjoined, events, overlaps>>

handle_live_control(t) ==
    \/ handle_live_control_L143(t) \/ handle_live_control_L147(t)
    \/ handle_live_control_L147b(t) \/ handle_live_control_L149(t)
    \/ handle_live_control_L151(t)

Next ==
    \/ \E c \in Conns : handle_connect(c)
    \/ \E t \in Threads, c \in Conns, in \in JoinInputs :
          recv_join_room(t, c, in[1], in[2])
    \/ \E t \in Threads : on_join(t)
    \/ \E t \in Threads, c \in Conns : recv_disconnect(t, c)
    \/ \E t \in Threads : handle_disconnect(t)
    \/ \E t \in Threads, c \in Conns, in \in TextInputs :
          recv_send_text(t, c, in[1], in[2])
    \/ \E t \in Threads : handle_text(t)
    \/ \E t \in Threads, c \in Conns, in \in ControlInputs :
          recv_send_live_control(t, c, in[1], in[2])
    \/ \E t \in Threads : handle_live_control(t)

Spec == Init /\ [][Next]_vars

\* ============================================================= properties
\* a join_room handler for a room code and a role has returned on thread t
JoinDone(t) ==
    /\ pc[t] = "done"
    /\ frame[t].handler = "join_room"
    /\ frame[t].data.code \in RoomCodes
    /\ frame[t].data.type \in {"sender", "receiver"}

\* the connection of the join on thread t is registered in its room and role
JoinKept(t) ==
    IF frame[t].data.type = "sender"
    THEN frame[t].sid \in RoomOf(frame[t].data.code).senders
    ELSE frame[t].sid \in RoomOf(frame[t].data.code).receivers

\* C1: whatever events were handled, one at a time, a room code is a key of
\* the registry iff the room's senders or receivers collection is non-empty.
C1_RegistryIffNonEmpty ==
    (Quiescent /\ overlaps = 0) =>
        \A code \in RoomCodes :
            DictHas(active_rooms, code) <=>
                (RoomOf(code).senders \cup RoomOf(code).receivers) # {}

\* C2: in every room of the registry, no connection is both in senders and
\* in receivers (handlers run one at a time).
C2_AtMostOneRole ==
    overlaps = 0 =>
        \A code \in RoomCodes :
            RoomOf(code).senders \cap RoomOf(code).receivers = {}

\* C3: in every room of the registry each connection id occurs at most once
\* in senders and at most once in receivers, also when join handlers overlap.
C3_NoDuplicateIds ==
    \A code \in DOMAIN Registry, c \in Conns :
        /\ Count(Registry[code].senders, c) <= 1
        /\ Count(Registry[code].receivers, c) <= 1

\* C4: when the join handlers of two different connections for the same room
\* code, which did not exist when either began, have overlapped and both
\* returned (no connection has disconnected), the registry holds the room
\* and both connections are in it in their roles.
C4_ConcurrentJoinsBothKept ==
    \A t \in Threads, u \in Threads :
        ( /\ t # u
          /\ JoinDone(t) /\ JoinDone(u)
          /\ frame[t].data.code = frame[u].data.code
          /\ frame[t].sid # frame[u].sid
          /\ u \in hist[t].overlapped
          /\ ~hist[t].room0.exists /\ ~hist[u].room0.exists
          /\ \A c \in Conns : status[c] # "closed" )
        => (JoinKept(t) /\ JoinKept(u))

\* C5: when a join_room for a room has overlapped the disconnect handler of
\* the connection that was the room's only member when the join began, and
\* both have returned, the joining connection is a member of the room
\* registered under the code.
C5_JoinSurvivesLastMemberLeaving ==
    \A tj \in Threads, td \in Threads :
        ( /\ JoinDone(tj)
          /\ pc[td] = "done" /\ frame[td].handler = "disconnect"
          /\ td \in hist[tj].overlapped
          /\ frame[td].sid # frame[tj].sid
          /\ hist[tj].room0.senders \cup hist[tj].room0.receivers
                = {frame[td].sid} )
        => JoinKept(tj)

\* C6: a relayed receive_text or receive_live_control for a room is delivered
\* only to connections that are in the room's receivers when it is relayed
\* (handlers run one at a time).
C6_RelayOnlyToReceivers ==
    overlaps = 0 =>
        \A t \in Threads : \A i \in 1..Len(emitted[t]) :
            emitted[t][i].event \in {"receive_text", "receive_live_control"}
                => emitted[t][i].rcpts \subseteq emitted[t][i].room_now.receivers

\* the error reply of on_join
IsJoinError(e, sid) ==
    /\ e.event = "error"
    /\ e.payload = [message |-> "Invalid room code or device type"]
    /\ e.to_sid = sid

\* C7: every step of a join_room whose type is non-empty and no role, with a
\* non-empty code, leaves the registry unchanged and emits nothing but the
\* error "Invalid room code or device type" to the requesting connection,
\* which is the one event emitted when the handler has returned.
C7_UnknownTypeRejected ==
    [][\A t \in Threads :
        ( /\ overlaps = 0
          /\ Running(t) /\ pc'[t] # pc[t]
          /\ frame[t].handler = "join_room"
          /\ frame[t].data.code \in RoomCodes
          /\ frame[t].data.type = "viewer" )
        => ( /\ Registry' = Registry
             /\ \A i \in 1..Len(emitted'[t]) :
                    IsJoinError(emitted'[t][i], frame[t].sid)
             /\ pc'[t] = "done" => Len(emitted'[t]) = 1 )]_vars

\* C8: the step that serves a join_room with a missing or empty code, or a
\* missing or empty type, ends the handler with exactly one event emitted,
\* an error to the requesting connection, and leaves the registry and the
\* group subscriptions as they were.
C8_MissingFieldOnlyError ==
    [][\A t \in Threads :
        ( /\ pc[t] = "L79" /\ pc'[t] # "L79"
          /\ ~Truthy(frame[t].data.code) \/ ~Truthy(frame[t].data.type) )
        => ( /\ pc'[t] = "done"
             /\ Len(emitted'[t]) = 1
             /\ IsJoinError(emitted'[t][1], frame[t].sid)
             /\ emitted'[t][1].to_group = NONE
             /\ Registry' = Registry
             /\ active_rooms' = active_rooms
             /\ groups' = groups )]_vars

\* C8's case: such a join has returned with its error while a room exists and
\* a connection is subscribed to a group
C8_Witness ==
    \E t \in Threads :
        /\ pc[t] = "done"
        /\ frame[t].handler = "join_room"
        /\ ~Truthy(frame[t].data.code) \/ ~Truthy(frame[t].data.type)
        /\ Len(emitted[t]) = 1 /\ emitted[t][1].event = "error"
        /\ Len(active_rooms) > 0
        /\ \E g \in GroupNames : groups[g] # {}

\* C9: a join as receiver that began after another connection's join of the
\* same room as sender had returned, with no disconnect since, is answered
\* room_joined with room_active, has_sender and has_receiver all true, and
\* room_status "active" goes to the room group's other subscribers, that
\* sender among them, and not to the joining connection.
C9_SecondJoinActive ==
    \A t \in Threads :
        ( /\ JoinDone(t)
          /\ frame[t].data.type = "receiver"
          /\ hist[t].prior_senders # {} )
        => ( /\ Len(emitted[t]) = 2
             /\ emitted[t][1].event = "room_joined"
             /\ emitted[t][1].to_sid = frame[t].sid
             /\ emitted[t][1].payload.room_active
             /\ emitted[t][1].payload.has_sender
             /\ emitted[t][1].payload.has_receiver
             /\ emitted[t][2].event = "room_status"
             /\ emitted[t][2].payload.status = "active"
             /\ emitted[t][2].to_group = frame[t].data.code
             /\ hist[t].prior_senders \subseteq emitted[t][2].rcpts
             /\ frame[t].sid \notin emitted[t][2].rcpts )

\* the disconnect handler on thread t has emitted sender_left to code's
\* receiver group
SenderLeftEmitted(t, code) ==
    \E i \in 1..Len(emitted[t]) :
        /\ emitted[t][i].event = "room_status"
        /\ emitted[t][i].payload.status = "sender_left"
        /\ emitted[t][i].to_group = RecvGroup(code)

\* C10: when the disconnect handler of connection c has returned (handlers
\* run one at a time), it has emitted sender_left to a room's receiver group
\* iff c was in the room's senders when it began and the room's receivers
\* still hold a connection other than c.
C10_SenderLeftIffReceiverRemains ==
    \A t \in Threads :
        ( /\ overlaps = 0
          /\ pc[t] = "done" /\ frame[t].handler = "disconnect" )
        => \A code \in RoomCodes :
              SenderLeftEmitted(t, code) <=>
                 ( /\ code \in hist[t].sender_of0
                   /\ RoomOf(code).receivers \ {frame[t].sid} # {} )

\* C11: every step of the disconnect handler of a connection that was in no
\* senders and no receivers collection of any room when the handler began
\* (handlers run one at a time) leaves the registry as it was and emits
\* nothing.
C11_UninvolvedDisconnectNoOp ==
    [][\A t \in Threads :
        ( /\ overlaps = 0
          /\ Running(t) /\ frame[t].handler = "disconnect"
          /\ hist[t].member_of0 = {}
          /\ pc'[t] # pc[t] )
        => ( /\ Registry' = Registry
             /\ emitted'[t] = <<>> )]_vars

\* a send_text handler with a non-empty code and text has ended on thread t
TextEnded(t) ==
    /\ pc[t] \in {"done", "failed"}
    /\ frame[t].handler = "send_text"
    /\ Truthy(frame[t].data.code) /\ Truthy(frame[t].data.text)

\* the error reply of a relay that found no receiver
IsNoReceiversError(e, sid) ==
    /\ e.event = "error"
    /\ e.payload = [message |-> "No receivers in room"]
    /\ e.to_sid = sid
    /\ e.to_group = NONE

\* the relay of the inbound payload to the receiver group of its room
IsRelay(e, event, data) ==
    /\ e.event = event
    /\ e.payload = data
    /\ e.to_group = RecvGroup(data.code)
    /\ e.to_sid = 0

\* C12: a send_text with a non-empty code and text, addressed to a room that
\* was not registered or had no receiver when the handler began and could
\* get none while it ran (nothing but disconnect handlers ran meanwhile),
\* ends with exactly one event emitted, the error "No receivers in room" to
\* the originating connection, and so with no receive_text.
C12_NoReceiversOneError ==
    \A t \in Threads :
        ( /\ TextEnded(t)
          /\ hist[t].room0.receivers = {}
          /\ hist[t].peers \subseteq {"disconnect"} )
        => ( /\ Len(emitted[t]) = 1
             /\ IsNoReceiversError(emitted[t][1], frame[t].sid) )

\* C13: a send_text with a non-empty code and text, addressed to a room that
\* had at least one receiver when the handler began and could lose none
\* while it ran (nothing but send_text and send_live_control handlers ran
\* meanwhile), returns with exactly one event emitted: receive_text with the
\* inbound payload unchanged, addressed to the room's receiver group; so no
\* error is emitted.
C13_RelayExactlyOnce ==
    \A t \in Threads :
        ( /\ TextEnded(t)
          /\ hist[t].room0.receivers # {}
          /\ hist[t].peers \subseteq {"send_text", "send_live_control"} )
        => ( /\ pc[t] = "done"
             /\ Len(emitted[t]) = 1
             /\ IsRelay(emitted[t][1], "receive_text", frame[t].data) )

\* C13's case: such a send_text has returned and its one event reached a
\* receiver
C13_Witness ==
    \E t \in Threads :
        /\ TextEnded(t)
        /\ hist[t].room0.receivers # {}
        /\ hist[t].peers \subseteq {"send_text", "send_live_control"}
        /\ Len(emitted[t]) = 1
        /\ emitted[t][1].event = "receive_text"
        /\ emitted[t][1].rcpts # {}

\* the error reply of handle_live_control to a payload without code or control
IsInvalidControlError(e, sid) ==
    /\ e.event = "error"
    /\ e.payload = [message |-> "Invalid live control payload"]
    /\ e.to_sid = sid
    /\ e.to_group = NONE

\* C14: every send_live_control handler that has ended has emitted exactly
\* one event: the error "Invalid live control payload" to the originator
\* when code or control is missing or empty; otherwise receive_live_control
\* with the unchanged payload to the room's receiver group, or the error
\* "No receivers in room" to the originator; and when no other handler ran
\* meanwhile it is the relay iff the room had a receiver when the handler
\* began.
C14_LiveControlExactlyOne ==
    \A t \in Threads :
        ( /\ pc[t] \in {"done", "failed"}
          /\ frame[t].handler = "send_live_control" )
        => /\ Len(emitted[t]) = 1
           /\ IF ~Truthy(frame[t].data.code) \/ ~Truthy(frame[t].data.control)
              THEN IsInvalidControlError(emitted[t][1], frame[t].sid)
              ELSE /\ \/ IsRelay(emitted[t][1], "receive_live_control",
                                 frame[t].data)
                      \/ IsNoReceiversError(emitted[t][1], frame[t].sid)
                   /\ hist[t].peers = {} =>
                         ( hist[t].room0.receivers # {} <=>
                             emitted[t][1].event = "receive_live_control" )

\* C15: the step of lines 127-129 of a send_text whose code or text is
\* missing or empty ends the handler with no event emitted and with the
\* registry and the groups as they were, in every interleaving.
C15_InvalidTextIgnored ==
    [][\A t \in Threads :
        ( /\ pc[t] = "L129" /\ pc'[t] # "L129"
          /\ ~Truthy(frame[t].data.code) \/ ~Truthy(frame[t].data.text) )
        => ( /\ pc'[t] = "done"
             /\ emitted'[t] = <<>>
             /\ \A u \in Threads \ {t} : emitted'[u] = emitted[u]
             /\ Registry' = Registry
             /\ active_rooms' = active_rooms
             /\ heap' = heap
             /\ groups' = groups )]_vars

\* C15's case: such a send_text has returned silently while a room with a
\* receiver is registered
C15_Witness ==
    \E t \in Threads :
        /\ pc[t] = "done"
        /\ frame[t].handler = "send_text"
        /\ ~Truthy(frame[t].data.code) \/ ~Truthy(frame[t].data.text)
        /\ emitted[t] = <<>>
        /\ \E code \in RoomCodes : RoomOf(code).receivers # {}

\* the handler on thread t has broadcast room_status "active"
ActiveEmitted(t) ==
    \E i \in 1..Len(emitted[t]) :
        /\ emitted[t][i].event = "room_status"
        /\ emitted[t][i].payload.status = "active"

\* C16: a join_room (handlers run one at a time) into a room that had both
\* a sender and a receiver, two different connections, when the handler
\* began returns without having broadcast room_status "active".
C16_ActiveOnlyOnBecomingActive ==
    \A t \in Threads :
        ( /\ overlaps = 0
          /\ JoinDone(t)
          /\ hist[t].room0.senders # {}
          /\ hist[t].room0.receivers # {}
          /\ hist[t].room0.senders \cap hist[t].room0.receivers = {} )
        => ~ActiveEmitted(t)

\* C17: every receive_text or receive_live_control emitted (handlers run one
\* at a time) comes from a handler whose connection is in the senders of the
\* addressed room at that moment.
C17_RelayOnlyFromSenders ==
    \A t \in Threads :
        overlaps = 0 =>
            \A i \in 1..Len(emitted[t]) :
                emitted[t][i].event \in {"receive_text", "receive_live_control"}
                => frame[t].sid \in emitted[t][i].room_now.senders

\* C18: when the disconnect handler of connection c, during which no other
\* handler ran, has returned, c is in no senders and no receivers collection
\* of any room of the registry, whatever joins came before.
C18_DisconnectedNowhere ==
    \A t \in Threads :
        ( /\ pc[t] = "done"
          /\ frame[t].handler = "disconnect"
          /\ hist[t].peers = {} )
        => \A code \in RoomCodes :
              frame[t].sid \notin
                  RoomOf(code).senders \cup RoomOf(code).receivers

\* C19: a disconnect handler during which nothing but other disconnect
\* handlers ran does not end by an exception: the lookup of line 51 and the
\* deletion of line 69 never meet a key that another handler has deleted.
C19_ConcurrentDisconnectsComplete ==
    \A t \in Threads :
        ( /\ frame[t].handler = "disconnect"
          /\ hist[t].peers \subseteq {"disconnect"} )
        => pc[t] # "failed"

\* C20: every step of a send_text or send_live_control handler, from its
\* dispatch to its end and whichever branch it takes, leaves the registry,
\* the room objects and every group subscription as they were.
C20_RelayChangesNoMembership ==
    [][\A t \in Threads :
        ( /\ pc'[t] # pc[t]
          /\ frame'[t].handler \in {"send_text", "send_live_control"} )
        => ( /\ Registry' = Registry
             /\ active_rooms' = active_rooms
             /\ heap' = heap
             /\ groups' = groups )]_vars

\* C20's case: a send_live_control has returned after relaying to a
\* subscribed receiver of a registered room
C20_Witness ==
    \E t \in Threads :
        /\ pc[t] = "done"
        /\ frame[t].handler = "send_live_control"
        /\ Len(emitted[t]) = 1
        /\ emitted[t][1].event = "receive_live_control"
        /\ emitted[t][1].rcpts # {}
        /\ Len(active_rooms) > 0

====
